---- MODULE Spec2Model ----
(***************************************************************************)
(* Model of the Magnesium radio control plane                              *)
(* (host/lib/usrp/dboard/magnesium/magnesium_radio_ctrl_impl.cpp).         *)
(*                                                                         *)
(* Frequencies and bandwidths are in MHz (2.5e9 Hz is 2500), gains in dB.  *)
(* The firmware behind the RPC client and the property tree are not part   *)
(* of the file; they are modelled from their contracts.                    *)
(***************************************************************************)
EXTENDS Integers, Sequences, FiniteSets, TLC

VARIABLES
    pc,             \* "new" before the constructor, "running", or "crashed"
    block_count,    \* get_block_id().get_block_count()
    _radio_slot,    \* member _radio_slot
    _rpc_prefix,    \* member _rpc_prefix
    _rpcc,          \* member _rpcc: "null" or "client"
    token,          \* whether the RPC client holds a session token
    eeprom_hooked,  \* whether set_rpc_client attached the eeprom node's hooks
    base,           \* radio_ctrl_impl's stored values, written by _init_defaults
    nodes,          \* stored value of every frontend property node
    eeprom_node,    \* stored value of the eeprom property node
    fw,             \* the transceiver controller's state (firmware side)
    nops,           \* number of operations run since construction
    lastOp,         \* the last operation: what was asked, what came back
    callers,        \* concurrent callers: where each is in its operation
    wire,           \* requests sent on the RPC client and not yet answered
    lock,           \* the callers' own mutual exclusion: "free" or its holder
    discipline      \* whether the callers serialize themselves with the lock

vars == <<pc, block_count, _radio_slot, _rpc_prefix, _rpcc, token, eeprom_hooked,
          base, nodes, eeprom_node, fw, nops, lastOp, callers, wire, lock, discipline>>

----------------------------------------------------------------------------
(* Program constants (anonymous namespace, lines 26-42).                   *)

MAGNESIUM_TICK_RATE == 125
MAGNESIUM_RADIO_RATE == 125
MAGNESIUM_MIN_FREQ == 300
MAGNESIUM_MAX_FREQ == 6000
MAGNESIUM_CENTER_FREQ == 2500
MAGNESIUM_DEFAULT_RX_ANTENNA == "RX2"
MAGNESIUM_DEFAULT_TX_ANTENNA == "TX/RX"
MAGNESIUM_DEFAULT_GAIN == 0
MAGNESIUM_DEFAULT_BANDWIDTH == 40
MAGNESIUM_NUM_TX_CHANS == 1
MAGNESIUM_NUM_RX_CHANS == 1

RX_DIRECTION == "RX"
TX_DIRECTION == "TX"
DX_DIRECTION == "DX"

----------------------------------------------------------------------------
(* Bounds of the model and the inputs drawn from them.                     *)

MaxChan == 2        \* channels 0..MaxChan are tried; 0 and 1 are valid
MaxOps == 2         \* operations run after the constructor
MaxBlock == 2       \* block indices 0..MaxBlock

Directions == {RX_DIRECTION, TX_DIRECTION, DX_DIRECTION}
ValidDirections == {RX_DIRECTION, TX_DIRECTION}
Channels == 0..MaxChan
Freqs == {MAGNESIUM_MIN_FREQ, MAGNESIUM_CENTER_FREQ}
Gains == {MAGNESIUM_DEFAULT_GAIN, 10}
Bandwidths == {20, MAGNESIUM_DEFAULT_BANDWIDTH}
Antennas == {"RX1", MAGNESIUM_DEFAULT_RX_ANTENNA}
Blobs == {"blobA"}
Rates == {100, MAGNESIUM_TICK_RATE}
Ports == 0..MaxChan
EmptyBlob == "empty"
Prefixes == {"db_0_", "db_1_"}
Whiches == {"RX1", "RX2", "TX1", "TX2"}
UBOutcomes == {"abort", "segv"}

\* Values that cross the API carry their type: a number, a string, or nothing.
Num(v) == <<"num", v>>
Str(v) == <<"str", v>>
NoValue == <<"none">>
Raw(tv) == tv[2]

----------------------------------------------------------------------------
(* Identifier derivation.                                                  *)

Digit(n) ==
    CASE n = 0 -> "0" [] n = 1 -> "1" [] n = 2 -> "2" [] n = 3 -> "3"
      [] n = 4 -> "4" [] OTHER -> "5"

\* _get_which without the channel assertion and with a 0-based channel.
_get_which_zero_based(dir, chan) ==
    IF dir \notin {RX_DIRECTION, TX_DIRECTION}
    THEN [err |-> "InvalidArgument", which |-> ""]
    ELSE [err |-> "none",
          which |-> (IF dir = RX_DIRECTION THEN "RX" ELSE "TX") \o Digit(chan)]

\* _get_which with both assertions dropped.
_get_which_unchecked(dir, chan) ==
    [err |-> "none",
     which |-> (IF dir = RX_DIRECTION THEN "RX" ELSE "TX") \o Digit(chan + 1)]

\* _get_which(dir, chan): both UHD_ASSERT_THROWs, then "%s%d" of RX/TX, chan+1.
_get_which(dir, chan) ==
    IF ~(dir = RX_DIRECTION \/ dir = TX_DIRECTION)
    THEN [err |-> "InvalidArgument", which |-> ""]
    ELSE IF ~(chan = 0 \/ chan = 1)
    THEN [err |-> "InvalidArgument", which |-> ""]
    ELSE [err |-> "none",
          which |-> (IF dir = RX_DIRECTION THEN "RX" ELSE "TX") \o Digit(chan + 1)]

----------------------------------------------------------------------------
(* The firmware and the RPC client facade (contracts only).                *)

HasName(method, name) == \E p \in Prefixes : method = p \o name
BoardOf(method, name) == CHOOSE p \in Prefixes : method = p \o name
DirOfWhich(which) == IF which \in {"RX1", "RX2"} THEN RX_DIRECTION ELSE TX_DIRECTION

\* The transceiver controller: one LO per board and direction, one gain per
\* board and identifier, one EEPROM. `applied` is the value the firmware
\* settles on for a write (its coercion of the request).
Firmware(method, args, applied, f) ==
    CASE HasName(method, "set_freq") ->
            [reply |-> Num(applied),
             fw |-> [f EXCEPT !.freq[<<BoardOf(method, "set_freq"), DirOfWhich(args[1])>>] = applied]]
      [] HasName(method, "get_freq") ->
            [reply |-> Num(f.freq[<<BoardOf(method, "get_freq"), DirOfWhich(args[1])>>]),
             fw |-> f]
      [] HasName(method, "set_gain") ->
            [reply |-> Num(applied),
             fw |-> [f EXCEPT !.gain[<<BoardOf(method, "set_gain"), args[1]>>] = applied]]
      [] HasName(method, "get_gain") ->
            [reply |-> Num(f.gain[<<BoardOf(method, "get_gain"), args[1]>>]),
             fw |-> f]
      [] method = "get_db_eeprom" ->
            [reply |-> Str(f.eeprom[args[1]]), fw |-> f]
      [] method = "set_db_eeprom" ->
            [reply |-> NoValue, fw |-> [f EXCEPT !.eeprom[args[1]] = args[2]]]
      [] OTHER ->
            [reply |-> NoValue, fw |-> f]

Call(method, args) == [method |-> method, args |-> args]

\* What an operation hands back: how it ended, the value it returned, the
\* RPC requests it made, the firmware state it left, and the failure the
\* facade raised (if any).
Result(outcome, result, calls, f, fault) ==
    [outcome |-> outcome, result |-> result, calls |-> calls, fw |-> f, fault |-> fault]

Ok(result, f) == Result("ok", result, <<>>, f, "none")

\* rpc_client::request_with_token / notify_with_token: fails without a
\* token or when the call does not go through, otherwise the firmware's reply.
request_with_token(method, args, env, f) ==
    IF ~token
    THEN Result("NoSessionToken", NoValue, <<Call(method, args)>>, f, "NoSessionToken")
    ELSE IF ~env.up
    THEN Result("RemoteCallFailure", NoValue, <<Call(method, args)>>, f, "RemoteCallFailure")
    ELSE LET r == Firmware(method, args, env.applied, f)
         IN  Result("ok", r.reply, <<Call(method, args)>>, r.fw, "none")

\* rpc_client::notify_with_token: the same conditions, but no reply is
\* waited for, so nothing comes back.
notify_with_token(method, args, env, f) ==
    LET r == request_with_token(method, args, env, f)
    IN  [r EXCEPT !.result = NoValue]

\* _rpcc-> on the default-constructed (null) pointer: undefined behaviour.
NullDeref(env, f) == Result(env.ub, NoValue, <<>>, f, "none")

----------------------------------------------------------------------------
(* AD9371 controls (lines 411-488). Every operator takes the firmware      *)
(* state f and the environment's part in the call (env) and gives a        *)
(* Result.                                                                 *)

\* _myk_set_frequency that hands back the requested value, not the reply.
_myk_set_frequency_echo(freq, chan, dir, env, f) ==
    LET w == _get_which(dir, chan) IN
    IF w.err # "none" THEN Result(w.err, NoValue, <<>>, f, "none")
    ELSE IF _rpcc = "null" THEN NullDeref(env, f)
    ELSE LET r == request_with_token(_rpc_prefix \o "set_freq", <<w.which, freq, FALSE>>, env, f)
         IN  IF r.outcome = "ok" THEN [r EXCEPT !.result = Num(freq)] ELSE r

\* _myk_set_frequency that swallows a failed call and reports the request.
_myk_set_frequency_swallow(freq, chan, dir, env, f) ==
    LET w == _get_which(dir, chan) IN
    IF w.err # "none" THEN Result(w.err, NoValue, <<>>, f, "none")
    ELSE IF _rpcc = "null" THEN NullDeref(env, f)
    ELSE LET r == request_with_token(_rpc_prefix \o "set_freq", <<w.which, freq, FALSE>>, env, f)
         IN  IF r.outcome = "ok" THEN r
             ELSE [r EXCEPT !.outcome = "ok", !.result = Num(freq)]

_myk_set_frequency(freq, chan, dir, env, f) ==
    LET w == _get_which(dir, chan) IN
    IF w.err # "none" THEN Result(w.err, NoValue, <<>>, f, "none")
    ELSE IF _rpcc = "null" THEN NullDeref(env, f)
    ELSE request_with_token(_rpc_prefix \o "set_freq", <<w.which, freq, FALSE>>, env, f)

\* _myk_set_gain that always addresses the first channel of the direction.
_myk_set_gain_ganged(gain, chan, dir, env, f) ==
    LET w == _get_which(dir, chan) IN
    IF w.err # "none" THEN Result(w.err, NoValue, <<>>, f, "none")
    ELSE IF _rpcc = "null" THEN NullDeref(env, f)
    ELSE request_with_token(_rpc_prefix \o "set_gain",
                            <<_get_which(dir, 0).which, gain>>, env, f)

_myk_set_gain(gain, chan, dir, env, f) ==
    LET w == _get_which(dir, chan) IN
    IF w.err # "none" THEN Result(w.err, NoValue, <<>>, f, "none")
    ELSE IF _rpcc = "null" THEN NullDeref(env, f)
    ELSE request_with_token(_rpc_prefix \o "set_gain", <<w.which, gain>>, env, f)

\* _myk_set_antenna: the write is ignored.
_myk_set_antenna(ant, chan, dir, env, f) == Ok(NoValue, f)

\* _myk_get_frequency that answers from the value stored at bring-up.
_myk_get_frequency_cached(chan, dir, env, f) ==
    LET w == _get_which(dir, chan) IN
    IF w.err # "none" THEN Result(w.err, NoValue, <<>>, f, "none")
    ELSE IF _rpcc = "null" THEN NullDeref(env, f)
    ELSE Ok(Num(MAGNESIUM_CENTER_FREQ), f)

_myk_get_frequency(chan, dir, env, f) ==
    LET w == _get_which(dir, chan) IN
    IF w.err # "none" THEN Result(w.err, NoValue, <<>>, f, "none")
    ELSE IF _rpcc = "null" THEN NullDeref(env, f)
    ELSE request_with_token(_rpc_prefix \o "get_freq", <<w.which>>, env, f)

\* _myk_get_gain that sends the request for the other channel along,
\* without waiting for the first reply.
_myk_get_gain_prefetch(chan, dir, env, f) ==
    LET w == _get_which(dir, chan) IN
    IF w.err # "none" THEN Result(w.err, NoValue, <<>>, f, "none")
    ELSE IF _rpcc = "null" THEN NullDeref(env, f)
    ELSE LET r == request_with_token(_rpc_prefix \o "get_gain", <<w.which>>, env, f)
         IN  [r EXCEPT !.calls =
                r.calls \o <<Call(_rpc_prefix \o "get_gain", <<_get_which(dir, 1 - chan).which>>)>>]

_myk_get_gain(chan, dir, env, f) ==
    LET w == _get_which(dir, chan) IN
    IF w.err # "none" THEN Result(w.err, NoValue, <<>>, f, "none")
    ELSE IF _rpcc = "null" THEN NullDeref(env, f)
    ELSE request_with_token(_rpc_prefix \o "get_gain", <<w.which>>, env, f)

\* _myk_get_antenna that answers the antenna last written to the node.
_myk_get_antenna_stored(chan, dir, env, f) ==
    IF <<dir, chan, "antenna">> \in DOMAIN nodes
    THEN Ok(Str(nodes[<<dir, chan, "antenna">>]), f)
    ELSE Ok(Str("RX1"), f)

\* _myk_get_antenna: always "RX1".
_myk_get_antenna(chan, dir, env, f) == Ok(Str("RX1"), f)

\* _myk_get_bandwidth: always the default.
_myk_get_bandwidth(chan, dir, env, f) == Ok(Num(MAGNESIUM_DEFAULT_BANDWIDTH), f)

\* get_rx_bandwidth(chan)
get_rx_bandwidth(chan, env, f) == _myk_get_bandwidth(chan, RX_DIRECTION, env, f)

\* _myk_set_bandwidth: the write is ignored, get_rx_bandwidth(chan) returned.
_myk_set_bandwidth(bandwidth, chan, dir, env, f) == get_rx_bandwidth(chan, env, f)

----------------------------------------------------------------------------
(* Public API (lines 250-349): each forwards to its _myk_ operation.       *)

set_rx_bandwidth(bandwidth, chan, env, f) ==
    _myk_set_bandwidth(bandwidth, chan, RX_DIRECTION, env, f)

----------------------------------------------------------------------------
(* Property nodes created by the constructor (lines 91-189), and the       *)
(* property tree's set and get (contract of the tree).                     *)

Attrs == {"antenna", "freq", "gain", "bandwidth"}
NumChans(dir) == IF dir = RX_DIRECTION THEN MAGNESIUM_NUM_RX_CHANS ELSE MAGNESIUM_NUM_TX_CHANS
FePaths == {<<dir, chan, attr>> : dir \in ValidDirections, chan \in Channels, attr \in Attrs}
NodePaths == {p \in FePaths : p[2] < NumChans(p[1])}
ant_prefix(dir) == IF dir = RX_DIRECTION THEN "RX" ELSE "TX"

\* The value each node is created with (.set before any hook is attached).
CtorNodes ==
    [p \in NodePaths |->
        CASE p[3] = "antenna"   -> ant_prefix(p[1]) \o Digit(p[2] + 1)
          [] p[3] = "freq"      -> MAGNESIUM_CENTER_FREQ
          [] p[3] = "gain"      -> MAGNESIUM_DEFAULT_GAIN
          [] p[3] = "bandwidth" -> MAGNESIUM_DEFAULT_BANDWIDTH]

\* set_coercer: freq, gain, and the bandwidth of the RX frontends only.
HasCoercer(p) ==
    \/ p[3] \in {"freq", "gain"}
    \/ p[3] = "bandwidth" /\ p[1] = RX_DIRECTION

\* set_publisher: antenna, freq, gain, and the bandwidth of RX only.
HasPublisher(p) ==
    \/ p[3] \in {"antenna", "freq", "gain"}
    \/ p[3] = "bandwidth" /\ p[1] = RX_DIRECTION

coerced_lambda(p, value, env, f) ==
    CASE p[3] = "freq"      -> _myk_set_frequency(value, p[2], p[1], env, f)
      [] p[3] = "gain"      -> _myk_set_gain(value, p[2], p[1], env, f)
      [] p[3] = "bandwidth" -> set_rx_bandwidth(value, p[2], env, f)
      [] p[3] = "antenna"   -> _myk_set_antenna(value, p[2], p[1], env, f)

publisher_lambda(p, env, f) ==
    CASE p[3] = "freq"      -> _myk_get_frequency(p[2], p[1], env, f)
      [] p[3] = "gain"      -> _myk_get_gain(p[2], p[1], env, f)
      [] p[3] = "bandwidth" -> get_rx_bandwidth(p[2], env, f)
      [] p[3] = "antenna"   -> _myk_get_antenna(p[2], p[1], env, f)

\* property::set: with a coercer, the coercer's return value is stored (and
\* nothing is stored when it throws); without one, the value is stored and
\* the coerced subscribers (the antenna node's) are called with it.
PropSet(p, value, env, f) ==
    IF HasCoercer(p)
    THEN LET r == coerced_lambda(p, value, env, f)
         IN  [r |-> r, stored |-> IF r.outcome = "ok" THEN Raw(r.result) ELSE nodes[p]]
    ELSE IF p[3] = "antenna"
    THEN [r |-> coerced_lambda(p, value, env, f), stored |-> value]
    ELSE [r |-> Ok(NoValue, f), stored |-> value]

\* property::get: the publisher's value when there is one, else the stored one.
PropGet(p, env, f) ==
    IF HasPublisher(p) THEN publisher_lambda(p, env, f)
    ELSE Ok(IF p[3] = "antenna" THEN Str(nodes[p]) ELSE Num(nodes[p]), f)

----------------------------------------------------------------------------
(* Bring-up: _init_defaults (lines 217-244) calls the radio_ctrl_impl::    *)
(* setters by qualified name; they store the value in the base class.      *)

EmptyBase == [k \in {} |-> 0]
Put(b, key, val) == [k \in DOMAIN b \cup {key} |-> IF k = key THEN val ELSE b[k]]
Store(st, attr, dir, chan, val) ==
    [st EXCEPT !.base = Put(st.base, <<attr, dir, chan>>, val)]

\* The defaults pushed through the overriding setters (the RPC path).
virtual_set_frequency(st, freq, chan, dir) ==
    LET r == _myk_set_frequency(freq, chan, dir,
                                [up |-> TRUE, applied |-> freq, ub |-> "segv"], fw)
    IN  [base |-> IF r.outcome = "ok"
                  THEN Put(st.base, <<"freq", dir, chan>>, Raw(r.result)) ELSE st.base,
         outcome |-> IF st.outcome = "ok" THEN r.outcome ELSE st.outcome,
         calls |-> st.calls \o r.calls]

\* radio_ctrl_impl::set_rx_frequency / set_tx_frequency
base_set_frequency(st, freq, chan, dir) == Store(st, "freq", dir, chan, freq)
\* radio_ctrl_impl::set_rx_gain / set_tx_gain
base_set_gain(st, gain, chan, dir) == Store(st, "gain", dir, chan, gain)
\* radio_ctrl_impl::set_rx_antenna / set_tx_antenna
base_set_antenna(st, ant, chan, dir) == Store(st, "antenna", dir, chan, ant)
\* radio_ctrl_impl::set_rx_bandwidth
base_set_bandwidth(st, bw, chan, dir) == Store(st, "bandwidth", dir, chan, bw)
\* radio_ctrl_impl::set_rate
base_set_rate(st, rate) == Store(st, "rate", "-", 0, rate)

RECURSIVE init_rx_chans(_, _, _)
init_rx_chans(st, chan, num_rx_chans) ==
    IF chan >= num_rx_chans THEN st
    ELSE init_rx_chans(
            base_set_bandwidth(
              base_set_antenna(
                base_set_gain(
                  base_set_frequency(st, MAGNESIUM_CENTER_FREQ, chan, RX_DIRECTION),
                  MAGNESIUM_DEFAULT_GAIN, chan, RX_DIRECTION),
                MAGNESIUM_DEFAULT_RX_ANTENNA, chan, RX_DIRECTION),
              MAGNESIUM_DEFAULT_BANDWIDTH, chan, RX_DIRECTION),
            chan + 1, num_rx_chans)

RECURSIVE init_tx_chans(_, _, _)
init_tx_chans(st, chan, num_tx_chans) ==
    IF chan >= num_tx_chans THEN st
    ELSE init_tx_chans(
            base_set_antenna(
              base_set_gain(
                base_set_frequency(st, MAGNESIUM_CENTER_FREQ, chan, TX_DIRECTION),
                MAGNESIUM_DEFAULT_GAIN, chan, TX_DIRECTION),
              MAGNESIUM_DEFAULT_TX_ANTENNA, chan, TX_DIRECTION),
            chan + 1, num_tx_chans)

_init_defaults(st) ==
    init_tx_chans(
        init_rx_chans(base_set_rate(st, MAGNESIUM_TICK_RATE), 0, MAGNESIUM_NUM_RX_CHANS),
        0, MAGNESIUM_NUM_TX_CHANS)

\* radio_ctrl_impl::get_rate: the rate radio_ctrl_impl::set_rate stored.
get_rate(b) == b[<<"rate", "-", 0>>]

\* set_rate that takes the requested rate.
set_rate_stores(rate, b) ==
    [result |-> Num(rate), base |-> Put(b, <<"rate", "-", 0>>, rate)]

\* set_rate(rate), lines 250-258: a warning when the rate differs, and
\* get_rate() returned.
set_rate(rate, b) == [result |-> Num(get_rate(b)), base |-> b]

\* get_output_samp_rate(port), lines 366-369.
get_output_samp_rate(port) == MAGNESIUM_RADIO_RATE

radio_slot_name == <<"A", "B", "C", "D">>

\* An RPC prefix that is the same for every block.
rpc_prefix_fixed(blk) == "db_0_"

\* The RPC prefix of block index blk (lines 70-71).
rpc_prefix_of(blk) == IF blk % 2 = 0 THEN "db_0_" ELSE "db_1_"

----------------------------------------------------------------------------
(* The state machine.                                                      *)

Op(op, via, dir, chan, arg, r) ==
    [op |-> op, via |-> via, dir |-> dir, chan |-> chan, arg |-> arg,
     outcome |-> r.outcome, result |-> r.result, calls |-> r.calls, fault |-> r.fault]

\* The environment's part in one operation: which way the undefined
\* behaviour of a null _rpcc goes, whether the call goes through, and the
\* value the firmware settles on. Only the parts the state lets matter vary.
NoEnv == [up |-> TRUE, applied |-> 0, ub |-> "segv"]
Envs(applied_values) ==
    IF _rpcc = "null" THEN {[NoEnv EXCEPT !.ub = u] : u \in UBOutcomes}
    ELSE IF ~token THEN {NoEnv}
    ELSE {[NoEnv EXCEPT !.up = FALSE]}
         \cup {[NoEnv EXCEPT !.applied = a] : a \in applied_values}
\* An operation that fails in _get_which never reaches the environment.
EnvsFor(dir, chan, applied_values) ==
    IF _get_which(dir, chan).err # "none" THEN {NoEnv} ELSE Envs(applied_values)

\* The threads of the framework that call into one instance.
Callers == {"c1", "c2"}
Idle == [st |-> "idle", op |-> "none", dir |-> "-", chan |-> 0, arg |-> NoValue,
         reply |-> NoValue, reply_for |-> "-"]

\* The firmware runs before the host connects: its LOs are wherever it left them.
FwInit ==
    {[freq   |-> [k \in Prefixes \X ValidDirections |-> f0],
      gain   |-> [k \in Prefixes \X Whiches |-> MAGNESIUM_DEFAULT_GAIN],
      eeprom |-> [i \in 0..3 |-> EmptyBlob]] : f0 \in Freqs}

Init ==
    /\ pc = "new"
    /\ block_count = 0
    /\ _radio_slot = ""
    /\ _rpc_prefix = ""
    /\ _rpcc = "null"
    /\ token = FALSE
    /\ eeprom_hooked = FALSE
    /\ base = EmptyBase
    /\ nodes = EmptyBase
    /\ eeprom_node = EmptyBlob
    /\ fw \in FwInit
    /\ nops = 0
    /\ lastOp = Op("none", "-", "-", 0, NoValue, Ok(NoValue, fw))
    /\ callers = [t \in Callers |-> Idle]
    /\ wire = {}
    /\ lock = "free"
    /\ discipline = TRUE

\* UHD_RFNOC_RADIO_BLOCK_CONSTRUCTOR(magnesium_radio_ctrl), lines 63-202.
Construct(blk) ==
    /\ pc = "new"
    /\ LET st == _init_defaults([base |-> EmptyBase, outcome |-> "ok", calls |-> <<>>])
       IN  /\ block_count' = blk
           /\ _radio_slot' = radio_slot_name[blk + 1]
           /\ _rpc_prefix' = rpc_prefix_of(blk)
           /\ base' = st.base
           /\ pc' = IF st.outcome = "ok" THEN "running" ELSE "crashed"
           /\ nodes' = IF st.outcome = "ok" THEN CtorNodes ELSE nodes
           /\ eeprom_node' = EmptyBlob
           /\ lastOp' = Op("ctor", "api", "-", blk, NoValue,
                           Result(st.outcome, NoValue, st.calls, fw, "none"))
    /\ UNCHANGED <<_rpcc, token, eeprom_hooked, fw, nops>>
    /\ UNCHANGED <<callers, wire, lock, discipline>>

\* set_rpc_client(rpcc, block_args), lines 371-390. The client is handed
\* over once; has_token says whether it carries a session token.
set_rpc_client(has_token) ==
    /\ pc = "running"
    /\ _rpcc = "null"
    /\ _rpcc' = "client"
    /\ token' = has_token
    /\ eeprom_hooked' = TRUE
    /\ lastOp' = Op("set_rpc_client", "api", "-", 0, NoValue, Ok(NoValue, fw))
    /\ UNCHANGED <<pc, block_count, _radio_slot, _rpc_prefix, base, nodes,
                   eeprom_node, fw, nops>>
    /\ UNCHANGED <<callers, wire, lock, discipline>>

\* What every frontend operation does to the rest of the state.
Finish(r) ==
    /\ fw' = r.fw
    /\ pc' = IF r.outcome \in UBOutcomes THEN "crashed" ELSE pc
    /\ nops' = nops + 1
    /\ UNCHANGED <<block_count, _radio_slot, _rpc_prefix, _rpcc, token,
                   eeprom_hooked, base>>
    /\ UNCHANGED <<callers, wire, lock, discipline>>

Ready == pc = "running" /\ nops < MaxOps

\* set_rx_frequency / set_tx_frequency
SetFrequency(freq, chan, dir) ==
    /\ Ready
    /\ \E env \in EnvsFor(dir, chan, Freqs) :
        LET r == _myk_set_frequency(freq, chan, dir, env, fw)
        IN  lastOp' = Op("set_freq", "api", dir, chan, Num(freq), r) /\ Finish(r)
    /\ UNCHANGED <<nodes, eeprom_node>>

\* get_rx_frequency / get_tx_frequency
GetFrequency(chan, dir) ==
    /\ Ready
    /\ \E env \in EnvsFor(dir, chan, {0}) :
        LET r == _myk_get_frequency(chan, dir, env, fw)
        IN  lastOp' = Op("get_freq", "api", dir, chan, NoValue, r) /\ Finish(r)
    /\ UNCHANGED <<nodes, eeprom_node>>

\* set_rx_gain / set_tx_gain
SetGain(gain, chan, dir) ==
    /\ Ready
    /\ \E env \in EnvsFor(dir, chan, Gains) :
        LET r == _myk_set_gain(gain, chan, dir, env, fw)
        IN  lastOp' = Op("set_gain", "api", dir, chan, Num(gain), r) /\ Finish(r)
    /\ UNCHANGED <<nodes, eeprom_node>>

\* get_rx_gain / get_tx_gain
GetGain(chan, dir) ==
    /\ Ready
    /\ \E env \in EnvsFor(dir, chan, {0}) :
        LET r == _myk_get_gain(chan, dir, env, fw)
        IN  lastOp' = Op("get_gain", "api", dir, chan, NoValue, r) /\ Finish(r)
    /\ UNCHANGED <<nodes, eeprom_node>>

\* set_rx_antenna / set_tx_antenna
SetAntenna(ant, chan, dir) ==
    /\ Ready
    /\ \E env \in {NoEnv} :
        LET r == _myk_set_antenna(ant, chan, dir, env, fw)
        IN  lastOp' = Op("set_antenna", "api", dir, chan, Str(ant), r) /\ Finish(r)
    /\ UNCHANGED <<nodes, eeprom_node>>

\* get_rx_antenna / get_tx_antenna
GetAntenna(chan, dir) ==
    /\ Ready
    /\ \E env \in {NoEnv} :
        LET r == _myk_get_antenna(chan, dir, env, fw)
        IN  lastOp' = Op("get_antenna", "api", dir, chan, NoValue, r) /\ Finish(r)
    /\ UNCHANGED <<nodes, eeprom_node>>

\* set_rx_bandwidth, and _myk_set_bandwidth for the other directions
SetBandwidth(bandwidth, chan, dir) ==
    /\ Ready
    /\ \E env \in {NoEnv} :
        LET r == _myk_set_bandwidth(bandwidth, chan, dir, env, fw)
        IN  lastOp' = Op("set_bandwidth", "api", dir, chan, Num(bandwidth), r) /\ Finish(r)
    /\ UNCHANGED <<nodes, eeprom_node>>

\* get_rx_bandwidth, and _myk_get_bandwidth for the other directions
GetBandwidth(chan, dir) ==
    /\ Ready
    /\ \E env \in {NoEnv} :
        LET r == _myk_get_bandwidth(chan, dir, env, fw)
        IN  lastOp' = Op("get_bandwidth", "api", dir, chan, NoValue, r) /\ Finish(r)
    /\ UNCHANGED <<nodes, eeprom_node>>

\* set_rate
SetRate(rate) ==
    /\ Ready
    /\ LET r == set_rate(rate, base)
       IN  /\ base' = r.base
           /\ lastOp' = Op("set_rate", "api", "-", 0, Num(rate), Ok(r.result, fw))
    /\ nops' = nops + 1
    /\ UNCHANGED <<pc, block_count, _radio_slot, _rpc_prefix, _rpcc, token,
                   eeprom_hooked, nodes, eeprom_node, fw>>
    /\ UNCHANGED <<callers, wire, lock, discipline>>

\* get_output_samp_rate
GetOutputSampRate(port) ==
    /\ Ready
    /\ LET r == Ok(Num(get_output_samp_rate(port)), fw)
       IN  lastOp' = Op("get_output_samp_rate", "api", "-", port, NoValue, r) /\ Finish(r)
    /\ UNCHANGED <<nodes, eeprom_node>>

SetOpOf(attr) ==
    CASE attr = "freq" -> "set_freq"
      [] attr = "gain" -> "set_gain"
      [] attr = "bandwidth" -> "set_bandwidth"
      [] attr = "antenna" -> "set_antenna"

GetOpOf(attr) ==
    CASE attr = "freq" -> "get_freq"
      [] attr = "gain" -> "get_gain"
      [] attr = "bandwidth" -> "get_bandwidth"
      [] attr = "antenna" -> "get_antenna"

ValuesOf(attr) ==
    CASE attr = "freq" -> Freqs
      [] attr = "gain" -> Gains
      [] attr = "bandwidth" -> Bandwidths
      [] attr = "antenna" -> Antennas

\* A write to a frontend's antenna, freq, gain or bandwidth value node.
NodeWrite(p, value) ==
    /\ Ready
    /\ \E env \in (IF p[3] \in {"freq", "gain"} THEN Envs(ValuesOf(p[3])) ELSE {NoEnv}) :
        LET w == PropSet(p, value, env, fw)
        IN  /\ nodes' = [nodes EXCEPT ![p] = w.stored]
            /\ lastOp' = Op(SetOpOf(p[3]), "node", p[1], p[2],
                            IF p[3] = "antenna" THEN Str(value) ELSE Num(value), w.r)
            /\ Finish(w.r)
    /\ UNCHANGED eeprom_node

\* A read of a frontend's antenna, freq, gain or bandwidth value node.
NodeRead(p) ==
    /\ Ready
    /\ \E env \in (IF p[3] \in {"freq", "gain"} THEN Envs({0}) ELSE {NoEnv}) :
        LET r == PropGet(p, env, fw)
        IN  lastOp' = Op(GetOpOf(p[3]), "node", p[1], p[2], NoValue, r) /\ Finish(r)
    /\ UNCHANGED <<nodes, eeprom_node>>

\* The eeprom node's publisher that answers from the blob stored in the node.
eeprom_publisher_stored(env, f) == Ok(Str(eeprom_node), f)

\* The eeprom node's coerced subscriber (lines 381-383):
\* notify_with_token("set_db_eeprom", db_idx, db_eeprom).
eeprom_subscriber(db_eeprom, env, f) ==
    notify_with_token("set_db_eeprom", <<block_count, db_eeprom>>, env, f)

\* The eeprom node's publisher (lines 384-388):
\* request_with_token<eeprom_map_t>("get_db_eeprom", db_idx).
eeprom_publisher(env, f) ==
    request_with_token("get_db_eeprom", <<block_count>>, env, f)

\* A write to the eeprom node: stored, then (once set_rpc_client attached
\* the subscriber) the subscriber is called with it.
EepromWrite(blob) ==
    /\ Ready
    /\ \E env \in (IF eeprom_hooked THEN Envs({0}) ELSE {NoEnv}) :
        LET r == IF eeprom_hooked
                 THEN eeprom_subscriber(blob, env, fw)
                 ELSE Ok(NoValue, fw)
        IN  lastOp' = Op("set_eeprom", "node", "-", 0, Str(blob), r) /\ Finish(r)
    /\ eeprom_node' = blob
    /\ UNCHANGED nodes

\* A read of the eeprom node: the stored blob, or (once set_rpc_client
\* attached the publisher) what the publisher returns.
EepromRead ==
    /\ Ready
    /\ \E env \in (IF eeprom_hooked THEN Envs({0}) ELSE {NoEnv}) :
        LET r == IF eeprom_hooked
                 THEN eeprom_publisher(env, fw)
                 ELSE Ok(Str(eeprom_node), fw)
        IN  lastOp' = Op("get_eeprom", "node", "-", 0, NoValue, r) /\ Finish(r)
    /\ UNCHANGED <<nodes, eeprom_node>>

Next ==
    \/ \E blk \in 0..MaxBlock : Construct(blk)
    \/ \E t \in BOOLEAN : set_rpc_client(t)
    \/ \E f \in Freqs, c \in Channels, d \in Directions : SetFrequency(f, c, d)
    \/ \E c \in Channels, d \in Directions : GetFrequency(c, d)
    \/ \E g \in Gains, c \in Channels, d \in Directions : SetGain(g, c, d)
    \/ \E c \in Channels, d \in Directions : GetGain(c, d)
    \/ \E a \in Antennas, c \in Channels, d \in Directions : SetAntenna(a, c, d)
    \/ \E c \in Channels, d \in Directions : GetAntenna(c, d)
    \/ \E b \in Bandwidths, c \in Channels, d \in Directions : SetBandwidth(b, c, d)
    \/ \E c \in Channels, d \in Directions : GetBandwidth(c, d)
    \/ \E r \in Rates : SetRate(r)
    \/ \E port \in Ports : GetOutputSampRate(port)
    \/ \E p \in NodePaths : \E v \in ValuesOf(p[3]) : NodeWrite(p, v)
    \/ \E p \in NodePaths : NodeRead(p)
    \/ \E b \in Blobs : EepromWrite(b)
    \/ EepromRead

Spec == Init /\ [][Next]_vars

----------------------------------------------------------------------------
(* Concurrent callers on one instance and one RPC client. The frequency    *)
(* and gain operations (lines 411-473) take no lock: a caller that enters  *)
(* one sends its request and blocks until a reply comes back. Whether the  *)
(* callers serialize themselves is the framework's choice (discipline).    *)

\* The frequency and gain operations on the frontends the constructor made.
ConcOps ==
    {[op |-> "set_freq", dir |-> d, chan |-> 0, arg |-> Num(MAGNESIUM_MIN_FREQ)] :
        d \in ValidDirections}
    \cup {[op |-> "set_gain", dir |-> d, chan |-> 0, arg |-> Num(10)] :
        d \in ValidDirections}
    \cup {[op |-> o, dir |-> d, chan |-> 0, arg |-> NoValue] :
        o \in {"get_freq", "get_gain"}, d \in ValidDirections}

\* The requests the operation sends before it blocks.
RequestsOf(o) ==
    CASE o.op = "set_freq" -> _myk_set_frequency(Raw(o.arg), o.chan, o.dir, NoEnv, fw).calls
      [] o.op = "set_gain" -> _myk_set_gain(Raw(o.arg), o.chan, o.dir, NoEnv, fw).calls
      [] o.op = "get_freq" -> _myk_get_frequency(o.chan, o.dir, NoEnv, fw).calls
      [] o.op = "get_gain" -> _myk_get_gain(o.chan, o.dir, NoEnv, fw).calls

\* The instance after bring-up and set_rpc_client with a token.
ConcInit ==
    /\ pc = "running"
    /\ block_count = 0
    /\ _radio_slot = radio_slot_name[1]
    /\ _rpc_prefix = rpc_prefix_of(0)
    /\ _rpcc = "client"
    /\ token = TRUE
    /\ eeprom_hooked = TRUE
    /\ base = _init_defaults([base |-> EmptyBase, outcome |-> "ok", calls |-> <<>>]).base
    /\ nodes = CtorNodes
    /\ eeprom_node = EmptyBlob
    /\ fw \in FwInit
    /\ nops = 0
    /\ lastOp = Op("set_rpc_client", "api", "-", 0, NoValue, Ok(NoValue, fw))
    /\ callers = [t \in Callers |-> Idle]
    /\ wire = {}
    /\ lock = "free"
    /\ discipline \in BOOLEAN

ConcFrame ==
    UNCHANGED <<pc, block_count, _radio_slot, _rpc_prefix, _rpcc, token,
                eeprom_hooked, base, nodes, eeprom_node, discipline>>

\* A caller decides on an operation.
Want(t, o) ==
    /\ callers[t].st = "idle"
    /\ nops < MaxOps
    /\ callers' = [callers EXCEPT ![t] =
            [Idle EXCEPT !.st = "waiting", !.op = o.op, !.dir = o.dir,
                         !.chan = o.chan, !.arg = o.arg]]
    /\ nops' = nops + 1
    /\ UNCHANGED <<wire, lock, fw, lastOp>>
    /\ ConcFrame

\* The caller enters the operation (with the lock, under the discipline):
\* the operation sends its request and blocks in request_with_token.
Enter(t) ==
    /\ callers[t].st = "waiting"
    /\ discipline => lock = "free"
    /\ lock' = IF discipline THEN t ELSE lock
    /\ LET calls == RequestsOf(callers[t])
       IN  wire' = wire \cup {[caller |-> t, seq |-> i, call |-> calls[i]] :
                                    i \in 1..Len(calls)}
    /\ callers' = [callers EXCEPT ![t].st = "blocked"]
    /\ UNCHANGED <<fw, nops, lastOp>>
    /\ ConcFrame

\* The firmware answers a request. With one request outstanding the reply
\* goes to the caller that sent it; with several, which blocked caller gets
\* which reply is not defined.
Serve(q, t) ==
    /\ q \in wire
    /\ callers[t].st = "blocked"
    /\ (Cardinality(wire) = 1 /\ callers[q.caller].st = "blocked") => t = q.caller
    /\ LET r == Firmware(q.call.method, q.call.args,
                         IF Len(q.call.args) > 1 THEN q.call.args[2] ELSE 0, fw)
       IN  /\ fw' = r.fw
           /\ callers' = [callers EXCEPT ![t].st = "returning",
                                         ![t].reply = r.reply,
                                         ![t].reply_for = q.caller]
    /\ wire' = wire \ {q}
    /\ UNCHANGED <<lock, nops, lastOp>>
    /\ ConcFrame

\* The operation returns the reply to its caller, who then lets go of the lock.
Return(t) ==
    /\ callers[t].st = "returning"
    /\ lastOp' = Op(callers[t].op, "api", callers[t].dir, callers[t].chan, callers[t].arg,
                    Result("ok", callers[t].reply, <<>>, fw, "none"))
    /\ callers' = [callers EXCEPT ![t] = Idle]
    /\ lock' = IF lock = t THEN "free" ELSE lock
    /\ UNCHANGED <<wire, fw, nops>>
    /\ ConcFrame

ConcNext ==
    \/ \E t \in Callers, o \in ConcOps : Want(t, o)
    \/ \E t \in Callers : Enter(t)
    \/ \E q \in wire, t \in Callers : Serve(q, t)
    \/ \E t \in Callers : Return(t)

ConcSpec == ConcInit /\ [][ConcNext]_vars

----------------------------------------------------------------------------
(* Properties.                                                             *)

ValidPair(dir, chan) == dir \in ValidDirections /\ chan \in {0, 1}

\* The identifier table of the wire protocol, written out.
WhichTable(dir, chan) ==
    CASE dir = RX_DIRECTION /\ chan = 0 -> "RX1"
      [] dir = RX_DIRECTION /\ chan = 1 -> "RX2"
      [] dir = TX_DIRECTION /\ chan = 0 -> "TX1"
      [] dir = TX_DIRECTION /\ chan = 1 -> "TX2"
      [] OTHER -> ""

FreqGainOps == {"set_freq", "get_freq", "set_gain", "get_gain"}
StubOps == {"set_antenna", "get_antenna", "set_bandwidth", "get_bandwidth"}
EepromOps == {"set_eeprom", "get_eeprom"}

\* C1: once the RPC client is set, every frequency read on a valid
\* (direction, channel), through the API or the freq/value node, makes
\* exactly one get_freq request naming that pair's identifier, and what it
\* returns is the firmware's current LO frequency for the direction, not a
\* value kept on the host.
C1_FreshFrequencyRead ==
    (lastOp.op = "get_freq" /\ ValidPair(lastOp.dir, lastOp.chan) /\ _rpcc = "client") =>
        /\ lastOp.calls = <<Call(_rpc_prefix \o "get_freq",
                                 <<WhichTable(lastOp.dir, lastOp.chan)>>)>>
        /\ lastOp.outcome = "ok" =>
                lastOp.result = Num(fw.freq[<<_rpc_prefix, lastOp.dir>>])
        /\ lastOp.outcome # "ok" => lastOp.outcome = lastOp.fault

\* A read of RX channel 1 that returns what a write through RX channel 0's
\* node made the shared LO.
C1_SharedLoRead ==
    /\ lastOp.op = "get_freq" /\ lastOp.dir = RX_DIRECTION /\ lastOp.chan = 1
    /\ lastOp.outcome = "ok"
    /\ nodes[<<RX_DIRECTION, 0, "freq">>] # MAGNESIUM_CENTER_FREQ
    /\ lastOp.result = Num(nodes[<<RX_DIRECTION, 0, "freq">>])
    /\ lastOp.result # Num(base[<<"freq", RX_DIRECTION, 0>>])

\* C2: before a session token is supplied, every set or get operation on
\* a valid (direction, channel), and every eeprom operation, fails with
\* NoSessionToken.
C2_FailsWithoutToken ==
    (~token /\ (\/ lastOp.op \in FreqGainOps \cup StubOps /\ ValidPair(lastOp.dir, lastOp.chan)
                \/ lastOp.op \in EepromOps)) =>
        lastOp.outcome = "NoSessionToken"

\* C3 as stated: every attribute operation with an invalid channel or
\* direction fails with InvalidArgument and makes no RPC request.
C3_InvalidArgumentEverywhere ==
    (lastOp.op \in FreqGainOps \cup StubOps /\ ~ValidPair(lastOp.dir, lastOp.chan)) =>
        lastOp.outcome = "InvalidArgument" /\ lastOp.calls = <<>>

\* C3: a frequency or gain operation with a channel outside {0, 1} or a
\* direction that is neither RX nor TX fails with InvalidArgument and makes
\* no RPC request; an antenna or bandwidth operation takes any channel and
\* direction, succeeds and makes no RPC request.
C3_InvalidArgumentFreqGain ==
    ~ValidPair(lastOp.dir, lastOp.chan) =>
        /\ lastOp.op \in FreqGainOps =>
                lastOp.outcome = "InvalidArgument" /\ lastOp.calls = <<>>
        /\ lastOp.op \in StubOps =>
                lastOp.outcome = "ok" /\ lastOp.calls = <<>>

\* A gain write on channel 2 refused although the client and its token are there.
C3_RefusedChannelTwo ==
    /\ lastOp.op = "set_gain" /\ lastOp.chan = 2 /\ lastOp.dir = RX_DIRECTION
    /\ _rpcc = "client" /\ token
    /\ lastOp.outcome = "InvalidArgument"

\* C4: once the RPC client is set, a frequency write on a valid pair makes
\* exactly one request prefix+"set_freq" with (identifier, requested value,
\* false) and a gain write exactly one request prefix+"set_gain" with
\* (identifier, requested value); a successful write returns the firmware's
\* reply, and through the property node that reply is the value stored.
C4_SetForwardsAndReturnsReply ==
    (ValidPair(lastOp.dir, lastOp.chan) /\ _rpcc = "client") =>
        /\ lastOp.op = "set_freq" =>
            /\ lastOp.calls = <<Call(_rpc_prefix \o "set_freq",
                                     <<WhichTable(lastOp.dir, lastOp.chan), Raw(lastOp.arg), FALSE>>)>>
            /\ lastOp.outcome = "ok" =>
                /\ lastOp.result = Num(fw.freq[<<_rpc_prefix, lastOp.dir>>])
                /\ lastOp.via = "node" =>
                        Num(nodes[<<lastOp.dir, lastOp.chan, "freq">>]) = lastOp.result
        /\ lastOp.op = "set_gain" =>
            /\ lastOp.calls = <<Call(_rpc_prefix \o "set_gain",
                                     <<WhichTable(lastOp.dir, lastOp.chan), Raw(lastOp.arg)>>)>>
            /\ lastOp.outcome = "ok" =>
                /\ lastOp.result = Num(fw.gain[<<_rpc_prefix, WhichTable(lastOp.dir, lastOp.chan)>>])
                /\ lastOp.via = "node" =>
                        Num(nodes[<<lastOp.dir, lastOp.chan, "gain">>]) = lastOp.result

\* A frequency written through the node where the firmware applied another
\* value than the one requested, and the node holds the applied one.
C4_NodeHoldsCoercedReply ==
    /\ lastOp.op = "set_freq" /\ lastOp.via = "node" /\ lastOp.outcome = "ok"
    /\ lastOp.result # lastOp.arg
    /\ Num(nodes[<<lastOp.dir, lastOp.chan, "freq">>]) = lastOp.result

\* C5: when the RPC of a frequency or gain write fails, the write made that
\* one request only, the failure is what the caller gets, and no node, no
\* stored default and no firmware state differs from before the write.
C5_FailedWriteChangesNothing ==
    [][(lastOp'.op \in {"set_freq", "set_gain"} /\ lastOp'.fault = "RemoteCallFailure") =>
            /\ lastOp'.outcome = "RemoteCallFailure"
            /\ Len(lastOp'.calls) = 1
            /\ nodes' = nodes
            /\ base' = base
            /\ fw' = fw]_vars

\* A gain write through the node whose call failed after an earlier write
\* had stored another value than the default.
C5_FailedNodeWrite ==
    /\ lastOp.op = "set_gain" /\ lastOp.via = "node"
    /\ lastOp.outcome = "RemoteCallFailure"
    /\ nodes[<<lastOp.dir, lastOp.chan, "gain">>] # MAGNESIUM_DEFAULT_GAIN
    /\ Num(nodes[<<lastOp.dir, lastOp.chan, "gain">>]) # lastOp.arg

\* C6: _get_which maps (RX,0), (RX,1), (TX,0), (TX,1) to "RX1", "RX2",
\* "TX1", "TX2", one to one and onto, and every request a frequency or gain
\* operation makes carries the identifier of the operation's pair.
C6_IdentifierBijection ==
    /\ \A d \in ValidDirections, c \in {0, 1} :
            _get_which(d, c) = [err |-> "none", which |-> WhichTable(d, c)]
    /\ \A d1, d2 \in ValidDirections, c1, c2 \in {0, 1} :
            _get_which(d1, c1).which = _get_which(d2, c2).which => d1 = d2 /\ c1 = c2
    /\ {_get_which(d, c).which : d \in ValidDirections, c \in {0, 1}} = Whiches
    /\ lastOp.op \in FreqGainOps =>
            \A i \in 1..Len(lastOp.calls) :
                lastOp.calls[i].args[1] = WhichTable(lastOp.dir, lastOp.chan)

\* A gain read of TX channel 1 whose request names "TX2".
C6_RequestNamesTX2 ==
    /\ lastOp.op = "get_gain" /\ lastOp.dir = TX_DIRECTION /\ lastOp.chan = 1
    /\ Len(lastOp.calls) = 1
    /\ lastOp.calls[1].args[1] = "TX2"

\* C7: an antenna write, with any string, direction and channel, succeeds
\* and makes no RPC request, and every antenna read returns "RX1", whatever
\* was written before.
C7_AntennaStub ==
    /\ lastOp.op = "set_antenna" => lastOp.outcome = "ok" /\ lastOp.calls = <<>>
    /\ lastOp.op = "get_antenna" =>
            lastOp.outcome = "ok" /\ lastOp.result = Str("RX1") /\ lastOp.calls = <<>>

\* "RX2" was written to the RX antenna node, and the read that follows
\* returns "RX1".
C7_WrittenRX2ReadRX1 ==
    /\ lastOp.op = "get_antenna" /\ lastOp.via = "node" /\ lastOp.dir = RX_DIRECTION
    /\ nodes[<<RX_DIRECTION, 0, "antenna">>] = "RX2"
    /\ lastOp.result = Str("RX1")

\* C8: a bandwidth write through the API returns the default, and every
\* bandwidth read, through the API or a bandwidth/value node, returns the
\* default 40 MHz.
C8_BandwidthReadsDefault ==
    /\ (lastOp.op = "set_bandwidth" /\ lastOp.via = "api") =>
            lastOp.outcome = "ok" /\ lastOp.result = Num(MAGNESIUM_DEFAULT_BANDWIDTH)
    /\ lastOp.op = "set_bandwidth" => lastOp.outcome = "ok"
    /\ lastOp.op = "get_bandwidth" =>
            lastOp.outcome = "ok" /\ lastOp.result = Num(MAGNESIUM_DEFAULT_BANDWIDTH)

\* C9 as stated: bring-up makes one set_freq and one set_gain request for
\* each channel.
C9_BringUpThroughAdapter ==
    lastOp.op = "ctor" =>
        Len(lastOp.calls) = 2 * (MAGNESIUM_NUM_RX_CHANS + MAGNESIUM_NUM_TX_CHANS)

\* C9: bring-up stores every default on the host through the base class
\* setters: it makes no RPC request, leaves the firmware as it was, cannot
\* fail on an RPC, and leaves the RPC client unset.
C9_BringUpStoresOnHost ==
    lastOp.op = "ctor" =>
        /\ lastOp.outcome = "ok" /\ pc = "running"
        /\ lastOp.calls = <<>>
        /\ fw \in FwInit
        /\ _rpcc = "null"
        /\ \A d \in ValidDirections : \A c \in 0..(NumChans(d) - 1) :
            /\ base[<<"freq", d, c>>] = MAGNESIUM_CENTER_FREQ
            /\ base[<<"gain", d, c>>] = MAGNESIUM_DEFAULT_GAIN
            /\ base[<<"antenna", d, c>>] =
                    (IF d = RX_DIRECTION THEN MAGNESIUM_DEFAULT_RX_ANTENNA
                                         ELSE MAGNESIUM_DEFAULT_TX_ANTENNA)
        /\ base[<<"bandwidth", RX_DIRECTION, 0>>] = MAGNESIUM_DEFAULT_BANDWIDTH
        /\ base[<<"rate", "-", 0>>] = MAGNESIUM_TICK_RATE

\* Bring-up done with the center frequency stored on the host while the
\* firmware's LO is somewhere else.
C9_DefaultsNotOnFirmware ==
    /\ lastOp.op = "ctor" /\ pc = "running"
    /\ base[<<"freq", RX_DIRECTION, 0>>] = MAGNESIUM_CENTER_FREQ
    /\ fw.freq[<<_rpc_prefix, RX_DIRECTION>>] # MAGNESIUM_CENTER_FREQ

\* C10: the first read after bring-up (no runtime write before it) sees
\* frequency 2500 MHz and gain 0 dB on both directions, RX antenna "RX2",
\* TX antenna "TX/RX", and bandwidth 40 MHz on both directions.
C10_ObservableDefaults ==
    (nops = 1 /\ lastOp.chan = 0 /\ lastOp.dir \in ValidDirections /\ lastOp.outcome = "ok") =>
        /\ lastOp.op = "get_antenna" =>
                lastOp.result = Str(IF lastOp.dir = RX_DIRECTION
                                    THEN MAGNESIUM_DEFAULT_RX_ANTENNA
                                    ELSE MAGNESIUM_DEFAULT_TX_ANTENNA)
        /\ lastOp.op = "get_freq" => lastOp.result = Num(MAGNESIUM_CENTER_FREQ)
        /\ lastOp.op = "get_gain" => lastOp.result = Num(MAGNESIUM_DEFAULT_GAIN)
        /\ lastOp.op = "get_bandwidth" => lastOp.result = Num(MAGNESIUM_DEFAULT_BANDWIDTH)

\* What the adapter's get_* of an attribute returns for a valid pair when it
\* succeeds.
AdapterGetValue(attr, dir, chan) ==
    CASE attr = "freq"      -> Num(fw.freq[<<_rpc_prefix, dir>>])
      [] attr = "gain"      -> Num(fw.gain[<<_rpc_prefix, WhichTable(dir, chan)>>])
      [] attr = "bandwidth" -> Num(MAGNESIUM_DEFAULT_BANDWIDTH)
      [] attr = "antenna"   -> Str("RX1")

AttrOfOp(op) ==
    CASE op \in {"set_freq", "get_freq"} -> "freq"
      [] op \in {"set_gain", "get_gain"} -> "gain"
      [] op \in {"set_bandwidth", "get_bandwidth"} -> "bandwidth"
      [] OTHER -> "antenna"

\* C11: on every cell of the direction x channel grid, a successful write to
\* the freq, gain or bandwidth value node goes through the adapter's set_*
\* and the node stores what set_* returned, and a successful read of any of
\* the four value nodes returns what the adapter's get_* returns.
C11_EveryNodeHooked ==
    (lastOp.via = "node" /\ lastOp.outcome = "ok"
        /\ lastOp.op \in FreqGainOps \cup StubOps) =>
        /\ lastOp.op \in {"set_freq", "set_gain", "set_bandwidth"} =>
            /\ lastOp.result # NoValue
            /\ Num(nodes[<<lastOp.dir, lastOp.chan, AttrOfOp(lastOp.op)>>]) = lastOp.result
        /\ lastOp.op \in {"get_freq", "get_gain", "get_bandwidth", "get_antenna"} =>
            lastOp.result = AdapterGetValue(AttrOfOp(lastOp.op), lastOp.dir, lastOp.chan)

\* C12: once set_rpc_client has run, a write to the eeprom node makes
\* exactly one set_db_eeprom notification carrying the block index and the
\* written blob and waits for no reply, a read makes exactly one
\* get_db_eeprom request carrying the block index and returns the firmware's
\* reply, not the blob stored in the node, and either fails with the
\* facade's error when the token is missing or the call does not go through.
C12_EepromThroughRpc ==
    (eeprom_hooked /\ lastOp.op \in EepromOps) =>
        /\ lastOp.op = "set_eeprom" =>
            /\ lastOp.calls = <<Call("set_db_eeprom", <<block_count, Raw(lastOp.arg)>>)>>
            /\ lastOp.result = NoValue
        /\ lastOp.op = "get_eeprom" =>
            /\ lastOp.calls = <<Call("get_db_eeprom", <<block_count>>)>>
            /\ lastOp.outcome = "ok" => lastOp.result = Str(fw.eeprom[block_count])
        /\ ~token => lastOp.outcome = "NoSessionToken"
        /\ lastOp.fault # "none" => lastOp.outcome = lastOp.fault
        /\ lastOp.outcome = "ok" <=> (token /\ lastOp.fault = "none")

\* A read of the eeprom node, after set_rpc_client, that returns the
\* firmware's blob while the node stores another one.
C12_ReadReturnsReplyNotStored ==
    /\ eeprom_hooked /\ lastOp.op = "get_eeprom" /\ lastOp.outcome = "ok"
    /\ Len(lastOp.calls) = 1
    /\ lastOp.result # Str(eeprom_node)

\* C14: a gain write on (direction, channel) makes at most one request, a
\* set_gain naming that pair's identifier, and leaves the firmware's gain of
\* every other identifier and board as it was, so a later gain read of
\* another pair returns what it would have returned before; no other
\* operation makes a set_gain request or changes any gain.
C14_GainWriteFrame ==
    [][/\ lastOp'.op = "set_gain" =>
            /\ Len(lastOp'.calls) <= 1
            /\ \A i \in 1..Len(lastOp'.calls) :
                    lastOp'.calls[i] =
                        Call(_rpc_prefix \o "set_gain",
                             <<WhichTable(lastOp'.dir, lastOp'.chan), Raw(lastOp'.arg)>>)
            /\ \A k \in DOMAIN fw.gain :
                    k # <<_rpc_prefix, WhichTable(lastOp'.dir, lastOp'.chan)>> =>
                        fw'.gain[k] = fw.gain[k]
       /\ lastOp'.op # "set_gain" =>
            /\ fw'.gain = fw.gain
            /\ \A i \in 1..Len(lastOp'.calls) :
                    ~HasName(lastOp'.calls[i].method, "set_gain")]_vars

\* A gain read of RX channel 1 that still returns the default after a gain
\* write on RX channel 0 made that channel's gain another value.
C14_OtherChannelKeepsGain ==
    /\ lastOp.op = "get_gain" /\ lastOp.dir = RX_DIRECTION /\ lastOp.chan = 1
    /\ lastOp.outcome = "ok"
    /\ lastOp.result = Num(MAGNESIUM_DEFAULT_GAIN)
    /\ fw.gain[<<_rpc_prefix, "RX1">>] # MAGNESIUM_DEFAULT_GAIN

\* C15: from bring-up on the stored rate is 125 MHz; set_rate(r), for r
\* equal to or different from it, leaves the rate and everything stored
\* unchanged, makes no RPC request and returns the rate that was current;
\* get_output_samp_rate returns 125 MHz for every port.
C15_RateIsFixed ==
    [][pc' # "new" =>
        /\ get_rate(base') = 125
        /\ lastOp'.op = "set_rate" =>
            /\ lastOp'.outcome = "ok"
            /\ lastOp'.result = Num(get_rate(base))
            /\ lastOp'.calls = <<>>
            /\ base' = base /\ fw' = fw /\ nodes' = nodes
        /\ lastOp'.op = "get_output_samp_rate" =>
            /\ lastOp'.outcome = "ok"
            /\ lastOp'.result = Num(125)
            /\ lastOp'.calls = <<>>]_vars

\* set_rate was asked for another rate than the current one, returned the
\* current one, and the stored rate is still the tick rate.
C15_OtherRateRefused ==
    /\ lastOp.op = "set_rate"
    /\ lastOp.arg # Num(MAGNESIUM_TICK_RATE)
    /\ lastOp.result = Num(MAGNESIUM_TICK_RATE)
    /\ get_rate(base) = MAGNESIUM_TICK_RATE

\* C16: the RPC prefix is fixed by the constructor from the parity of the
\* block index ("db_0_" when even, "db_1_" when odd) and never changes, nor
\* does the block index; every request of a frequency or gain operation has
\* the method name prefix + operation name; the eeprom calls are named
\* without prefix and carry the block index itself; block indices of the
\* same parity get the same prefix.
C16_PrefixFromParity ==
    [][pc' # "new" =>
        /\ _rpc_prefix' = (IF block_count' % 2 = 0 THEN "db_0_" ELSE "db_1_")
        /\ pc # "new" => (_rpc_prefix' = _rpc_prefix /\ block_count' = block_count)
        /\ lastOp'.op \in FreqGainOps =>
            \A i \in 1..Len(lastOp'.calls) :
                lastOp'.calls[i].method = _rpc_prefix' \o lastOp'.op
        /\ lastOp'.op \in EepromOps =>
            \A i \in 1..Len(lastOp'.calls) :
                /\ lastOp'.calls[i].method =
                        (IF lastOp'.op = "set_eeprom" THEN "set_db_eeprom" ELSE "get_db_eeprom")
                /\ lastOp'.calls[i].args[1] = block_count'
        /\ \A b1, b2 \in 0..3 :
                b1 % 2 = b2 % 2 => rpc_prefix_of(b1) = rpc_prefix_of(b2)]_vars

\* The instance of block 2 made a db_0_set_freq request, the method the
\* instance of block 0 addresses.
C16_BlockTwoUsesDb0 ==
    /\ block_count = 2 /\ _rpc_prefix = rpc_prefix_of(0)
    /\ lastOp.op = "set_freq" /\ Len(lastOp.calls) = 1
    /\ lastOp.calls[1].method = "db_0_set_freq"

\* C13: the operations take no lock of their own. When the callers
\* serialize themselves (one operation at a time on the shared client)
\* there is never more than one request in flight, the request in flight is
\* the lock holder's, and every reply is delivered to the operation that
\* sent the request.
C13_SerializedOneInFlight ==
    discipline =>
        /\ Cardinality(wire) <= 1
        /\ \A q \in wire : lock = q.caller /\ callers[q.caller].st = "blocked"
        /\ \A t \in Callers :
                callers[t].st = "returning" => callers[t].reply_for = t

\* Under the discipline: one caller blocked in its RPC, its request the
\* only one in flight, the other caller held back at the lock.
C13_SecondCallerHeldBack ==
    /\ discipline
    /\ Cardinality(wire) = 1
    /\ \E t, u \in Callers :
        /\ t # u
        /\ callers[t].st = "blocked" /\ lock = t
        /\ callers[u].st = "waiting"

\* Without the discipline: two callers' requests in flight at once on the
\* same client.
C13_TwoInFlightUnserialized ==
    /\ ~discipline
    /\ \E q1, q2 \in wire : q1.caller # q2.caller

\* Without the discipline: a caller handed the reply to the other
\* caller's request.
C13_ReplyToWrongCaller ==
    /\ ~discipline
    /\ \E t \in Callers : callers[t].st = "returning" /\ callers[t].reply_for # t

====
